---- MODULE Spec2Model ----
(***************************************************************************)
(* Registration-to-payment state machine of backend/server.py: the        *)
(* pricing computation of create_registration, the db.registrations       *)
(* collection, the two-step create_order handler (gateway call, then      *)
(* store update) and the two-step verify_payment handler (signature       *)
(* check, then store update).                                             *)
(***************************************************************************)
EXTENDS Integers, Sequences, FiniteSets, TLC

VARIABLES
    razorpay_key_id,      \* os.environ.get('RAZORPAY_KEY_ID', '')
    razorpay_key_secret,  \* os.environ.get('RAZORPAY_KEY_SECRET', '')
    registrations,        \* db.registrations: documents in insertion order
    orders,               \* orders the gateway has created, in creation order
    inflight,             \* handlers suspended at `await ...update_one(...)`
    last_response         \* the response most recently sent to a caller

vars == <<razorpay_key_id, razorpay_key_secret, registrations, orders,
          inflight, last_response>>

-----------------------------------------------------------------------------
(* Bounds of the model. *)

MaxRegistrations == 2   \* documents inserted into db.registrations
MaxOrders == 2          \* orders created at the gateway
MaxInflight == 2        \* handlers suspended at the same time
MaxPricingRegistrations == 1   \* documents inserted under SpecPricing

-----------------------------------------------------------------------------
(* Python values. *)

\* None, the default of the Optional[str] fields.
None == "None"

\* Truth value of an Optional[str]: None and the empty string are falsy.
Truthy(s) == s # None /\ s # ""

\* dict.get(key, default)
DictGet(d, key, default) == IF key \in DOMAIN d THEN d[key] ELSE default

Min(S) == CHOOSE x \in S : \A y \in S : x <= y

-----------------------------------------------------------------------------
(* Pricing configuration and the amount computed by create_registration. *)

PRICING ==
    ("delegate_early_bird" :> 12000) @@ ("delegate_regular" :> 15000) @@
    ("delegate_late" :> 18000) @@ ("student_early_bird" :> 6000) @@
    ("student_regular" :> 8000) @@ ("student_late" :> 10000) @@
    ("accompanying_person" :> 5000) @@ ("workshop_only" :> 3000)

ROOM_PRICING ==
    ("standard" :> 6000) @@ ("deluxe" :> 8000) @@ ("suite" :> 12000)

nights == 2

\* A plausible slip: the room cost is added for one night only.
RegistrationAmountOneNight(input_data) ==
    LET amount == DictGet(PRICING, input_data.category, 0)
        total == IF input_data.accommodation_required /\ Truthy(input_data.room_type)
                 THEN amount + DictGet(ROOM_PRICING, input_data.room_type, 0)
                 ELSE amount
    IN total * 100

\* The amount in paise: base fee, plus the room cost when accommodation is
\* required and a room type is given, times 100.
RegistrationAmount(input_data) ==
    LET amount == DictGet(PRICING, input_data.category, 0)
        total == IF input_data.accommodation_required /\ Truthy(input_data.room_type)
                 THEN amount + DictGet(ROOM_PRICING, input_data.room_type, 0) * nights
                 ELSE amount
    IN total * 100

-----------------------------------------------------------------------------
(* Inputs. *)

Categories == DOMAIN PRICING \cup {"vip"}
RoomTypes == DOMAIN ROOM_PRICING \cup {"penthouse", "", None}

\* RegistrationCreate bodies: every category and accommodation selection.
AllRegistrationInputs ==
    [full_name : {"Dr. Test User"}, email : {"test.doctor@example.com"},
     category : Categories, accommodation_required : BOOLEAN,
     room_type : RoomTypes]

\* The RegistrationCreate bodies used with the payment operations.
RegistrationInputs ==
    {i \in AllRegistrationInputs :
        /\ i.category = "delegate_early_bird"
        /\ ~i.accommodation_required
        /\ i.room_type = None}

\* A plausible slip: `default=str(uuid.uuid4())` in place of the
\* default_factory, so the id is drawn once, when the class is defined.
NewIdDrawnOnce(n) == "reg_" \o ToString(1)

\* str(uuid.uuid4()) of the n-th Registration built: fresh for every n.
NewId(n) == "reg_" \o ToString(n)

\* Registration ids a caller names: the id of the first registration created,
\* and an id the store never holds.
RegistrationIds == {NewId(1), "test-registration-id"}

\* The amount a caller puts in an OrderCreate body: the amount of the
\* registration it pays for, as the checkout page sends it.
AmountInputs == {1200000}

\* Amounts a caller is free to put in an OrderCreate body.
AnyAmountInputs == {1200000, 100}

\* The (order id, payment id) pairs a caller puts in a PaymentVerification
\* body: ids as the gateway issues them, and ids that contain the separator.
IdPairInputs ==
    {<<"order_1", "pay_1">>, <<"order_1", "pay_1|pay_1">>, <<"order_1|pay_1", "pay_1">>}

-----------------------------------------------------------------------------
(* Gateway credentials and the signature. *)

KeyIds == {"", "rzp_test_key"}
KeySecrets == {"", "s3cr3t"}

\* A plausible slip: only the key id is looked at.
razorpay_client_key_id_only == razorpay_key_id # ""

\* razorpay_client is built only when both credentials are non-empty.
razorpay_client == razorpay_key_id # "" /\ razorpay_key_secret # ""

\* f"{razorpay_order_id}|{razorpay_payment_id}"
Message(payment_data) ==
    payment_data.razorpay_order_id \o "|" \o payment_data.razorpay_payment_id

\* hmac.new(key, message, sha256).hexdigest(): the digest is taken to be
\* injective in (key, message); it is written as a string naming both.
HmacSha256Hex(key, message) == "hmac(" \o key \o "," \o message \o ")"

\* A plausible slip: the digest is taken over the order id alone.
GeneratedSignatureOrderOnly(payment_data) ==
    HmacSha256Hex(razorpay_key_secret, payment_data.razorpay_order_id)

\* generated_signature of verify_payment
GeneratedSignature(payment_data) ==
    HmacSha256Hex(razorpay_key_secret, Message(payment_data))

\* Signatures a caller presents: the digest of every pair's message under the
\* secret a configured gateway has, and a string that is no such digest.
SignatureInputs ==
    {HmacSha256Hex("s3cr3t", pair[1] \o "|" \o pair[2]) : pair \in IdPairInputs}
    \cup {"deadbeef"}

PaymentVerificationInputs ==
    {[razorpay_order_id |-> pair[1], razorpay_payment_id |-> pair[2],
      razorpay_signature |-> signature, registration_id |-> id] :
        pair \in IdPairInputs, signature \in SignatureInputs, id \in RegistrationIds}

OrderCreateInputs ==
    [amount : AmountInputs, currency : {"INR"}, registration_id : RegistrationIds]

AnyAmountOrderCreateInputs ==
    [amount : AnyAmountInputs, currency : {"INR"}, registration_id : RegistrationIds]

-----------------------------------------------------------------------------
(* The store. *)

\* A plausible slip: only the date part of the timestamp is parsed.
fromisoformatDateOnly(s) == 0

\* datetime.isoformat() of the t-th clock reading, and its inverse.
isoformat(t) == "2026-01-01T00:00:0" \o ToString(t)
fromisoformat(s) == CHOOSE t \in 0..(MaxRegistrations + MaxPricingRegistrations + 2) : isoformat(t) = s

\* datetime.now(timezone.utc): the clock advances with every document stored.
Now == Len(registrations) + 1

\* Registration(**input_data.model_dump(), amount=...): defaults for the rest.
Registration(input_data, amount) ==
    [id |-> NewId(Len(registrations) + 1),
     full_name |-> input_data.full_name,
     email |-> input_data.email,
     category |-> input_data.category,
     accommodation_required |-> input_data.accommodation_required,
     room_type |-> input_data.room_type,
     amount |-> amount,
     payment_status |-> "pending",
     order_id |-> None,
     payment_id |-> None,
     created_at |-> Now]

\* registration.model_dump() with created_at replaced by its isoformat().
Doc(registration) == [registration EXCEPT !.created_at = isoformat(registration.created_at)]

\* A plausible slip: update_one(..., upsert=True) inserts a document when no
\* document has that id.
UpdateOneUpsert(collection, id, fields) ==
    LET matches == {i \in DOMAIN collection : collection[i].id = id}
    IN IF matches = {}
       THEN Append(collection, fields @@ [id |-> id])
       ELSE [collection EXCEPT ![Min(matches)] = fields @@ collection[Min(matches)]]

\* collection.update_one({"id": id}, {"$set": fields}): the first document
\* with that id gets the fields; no document with that id, no change.
UpdateOne(collection, id, fields) ==
    LET matches == {i \in DOMAIN collection : collection[i].id = id}
    IN IF matches = {}
       THEN collection
       ELSE [collection EXCEPT ![Min(matches)] = fields @@ collection[Min(matches)]]

-----------------------------------------------------------------------------
(* Responses. *)

NoResponse == [endpoint |-> None, status_code |-> 0, detail |-> None]

\* raise HTTPException(status_code=..., detail=...)
HTTPException(endpoint, status_code, detail) ==
    [endpoint |-> endpoint, status_code |-> status_code, detail |-> detail]

\* A returned body, sent with status 200.
Ok(endpoint, body) ==
    [endpoint |-> endpoint, status_code |-> 200, detail |-> None, body |-> body]

-----------------------------------------------------------------------------
(* Initial state: the module has been imported, the store is empty. *)

Init ==
    /\ razorpay_key_id \in KeyIds
    /\ razorpay_key_secret \in KeySecrets
    /\ registrations = <<>>
    /\ orders = <<>>
    /\ inflight = {}
    /\ last_response = NoResponse

-----------------------------------------------------------------------------
(* POST /registration *)

\* insert_one stores the document and the handler returns the registration.
create_registration(input_data, limit) ==
    /\ Len(registrations) < limit
    /\ LET registration == Registration(input_data, RegistrationAmount(input_data))
       IN /\ registrations' = Append(registrations, Doc(registration))
          /\ last_response' = Ok("registration", registration)
    /\ UNCHANGED <<razorpay_key_id, razorpay_key_secret, orders, inflight>>

\* insert_one raises (the store cannot be reached) and nothing catches it.
create_registration_fails ==
    /\ last_response' = HTTPException("registration", 500, "Internal Server Error")
    /\ UNCHANGED <<razorpay_key_id, razorpay_key_secret, registrations, orders, inflight>>

-----------------------------------------------------------------------------
(* GET /registration/{registration_id} *)

\* Registration(**doc), after created_at has been parsed back from its string.
RegistrationFromDoc(doc) == [doc EXCEPT !.created_at = fromisoformat(doc.created_at)]

\* find_one answers: no document with that id is a 404, else the document is
\* returned as a Registration.
get_registration(registration_id) ==
    /\ LET matches == {i \in DOMAIN registrations : registrations[i].id = registration_id}
       IN IF matches = {}
          THEN last_response' = HTTPException("get-registration", 404, "Registration not found")
          ELSE last_response' = Ok("get-registration",
                                   RegistrationFromDoc(registrations[Min(matches)]))
    /\ UNCHANGED <<razorpay_key_id, razorpay_key_secret, registrations, orders, inflight>>

\* find_one raises (the store cannot be reached) and nothing catches it.
get_registration_fails ==
    /\ last_response' = HTTPException("get-registration", 500, "Internal Server Error")
    /\ UNCHANGED <<razorpay_key_id, razorpay_key_secret, registrations, orders, inflight>>

-----------------------------------------------------------------------------
(* POST /create-order *)

\* The body of razorpay_client.order.create: the caller's amount and currency.
OrderRequest(order_data) ==
    [amount |-> order_data.amount,
     currency |-> order_data.currency,
     payment_capture |-> 1,
     notes |-> [registration_id |-> order_data.registration_id]]

\* The order the gateway creates for a request: the request plus a new id.
GatewayOrder(request) ==
    [id |-> "order_" \o ToString(Len(orders) + 1)] @@ request

\* A plausible slip: the update also copies the order's amount into the record.
OrderIdFieldsWithAmount(order) == [order_id |-> order.id, amount |-> order.amount]

\* A plausible slip: the wrong field of the order is written.
OrderIdFieldsFromNotes(order) == [order_id |-> order.notes.registration_id]

\* A plausible slip: the update also writes the default payment status back.
OrderIdFieldsResetStatus(order) == [order_id |-> order.id, payment_status |-> "pending"]

\* A plausible slip: a record that already has an order id keeps it.
OrderIdFieldsIfUnset(order) ==
    LET held == {registrations[i].order_id : i \in
                    {i \in DOMAIN registrations :
                        /\ registrations[i].id = order.notes.registration_id
                        /\ registrations[i].order_id # None}}
    IN IF held = {} THEN [order_id |-> order.id]
       ELSE [order_id |-> CHOOSE id \in held : TRUE]

\* A plausible slip: the update writes the payment fields of a fresh
\* Registration along with the order id.
OrderIdFieldsWithPaymentDefaults(order) ==
    [order_id |-> order.id, payment_status |-> "pending", payment_id |-> None]

\* {"$set": {"order_id": order["id"]}}
OrderIdFields(order) == [order_id |-> order.id]

\* A plausible slip: order.create is tried again after it raised, and the
\* second attempt goes through.
create_order_attempt_retrying(order_data, gateway_raises) ==
    /\ IF ~razorpay_client
       THEN /\ last_response' = HTTPException("create-order", 500, "Payment gateway not configured")
            /\ UNCHANGED <<orders, inflight>>
       ELSE /\ Len(orders) < MaxOrders
            /\ Cardinality(inflight) < MaxInflight
            /\ LET order == GatewayOrder(OrderRequest(order_data))
               IN /\ orders' = Append(orders, order)
                  /\ inflight' = inflight \cup
                         {[op |-> "create_order", order_data |-> order_data, order |-> order]}
            /\ UNCHANGED last_response
    /\ UNCHANGED <<razorpay_key_id, razorpay_key_secret, registrations>>

\* Up to the await: the configuration check and the one call of order.create,
\* which raises (gateway_raises) or returns the order it created.
create_order_attempt(order_data, gateway_raises) ==
    /\ IF ~razorpay_client
       THEN /\ last_response' = HTTPException("create-order", 500, "Payment gateway not configured")
            /\ UNCHANGED <<orders, inflight>>
       ELSE IF gateway_raises
       THEN /\ last_response' = HTTPException("create-order", 500, "Failed to create payment order")
            /\ UNCHANGED <<orders, inflight>>
       ELSE /\ Len(orders) < MaxOrders
            /\ Cardinality(inflight) < MaxInflight
            /\ LET order == GatewayOrder(OrderRequest(order_data))
               IN /\ orders' = Append(orders, order)
                  /\ inflight' = inflight \cup
                         {[op |-> "create_order", order_data |-> order_data, order |-> order]}
            /\ UNCHANGED last_response
    /\ UNCHANGED <<razorpay_key_id, razorpay_key_secret, registrations>>

\* Up to the await, whatever the gateway does with the call.
create_order(order_data) ==
    \E gateway_raises \in BOOLEAN : create_order_attempt(order_data, gateway_raises)

\* From the await on, the store reachable: update_one is applied and the
\* handler returns the order.
create_order_update(call) ==
    /\ call \in inflight
    /\ call.op = "create_order"
    /\ inflight' = inflight \ {call}
    /\ registrations' = UpdateOne(registrations, call.order_data.registration_id,
                                  OrderIdFields(call.order))
    /\ last_response' = Ok("create-order",
                           [order_id |-> call.order.id,
                            amount |-> call.order.amount,
                            currency |-> call.order.currency,
                            key_id |-> razorpay_key_id])
    /\ UNCHANGED <<razorpay_key_id, razorpay_key_secret, orders>>

\* From the await on, the store unreachable: update_one raises and the
\* handler reports the generic failure.
create_order_update_fails(call) ==
    /\ call \in inflight
    /\ call.op = "create_order"
    /\ inflight' = inflight \ {call}
    /\ last_response' = HTTPException("create-order", 500, "Failed to create payment order")
    /\ UNCHANGED <<razorpay_key_id, razorpay_key_secret, registrations, orders>>

-----------------------------------------------------------------------------
(* POST /verify-payment *)

\* A plausible slip: the comparison is left out, so nothing is a mismatch.
SignatureNeverMismatches(payment_data) == FALSE

\* A plausible slip of design: the call is also refused when the named
\* registration does not carry the order id the call presents.
SignatureMismatchOrOtherOrder(payment_data) ==
    \/ GeneratedSignature(payment_data) # payment_data.razorpay_signature
    \/ ~\E i \in DOMAIN registrations :
            /\ registrations[i].id = payment_data.registration_id
            /\ registrations[i].order_id = payment_data.razorpay_order_id

\* generated_signature != payment_data.razorpay_signature
SignatureMismatch(payment_data) ==
    GeneratedSignature(payment_data) # payment_data.razorpay_signature

\* A plausible slip: the verified order id is recorded along with the payment.
PaymentFieldsWithOrderId(payment_data) ==
    [payment_status |-> "completed", payment_id |-> payment_data.razorpay_payment_id,
     order_id |-> payment_data.razorpay_order_id]

\* A plausible slip: the payment id is recorded without the status.
PaymentFieldsIdOnly(payment_data) == [payment_id |-> payment_data.razorpay_payment_id]

\* A plausible slip: the order id is stored where the payment id belongs.
PaymentFieldsOrderId(payment_data) ==
    [payment_status |-> "completed", payment_id |-> payment_data.razorpay_order_id]

\* A plausible slip: a record that is already completed keeps its payment id.
PaymentFieldsKeepFirst(payment_data) ==
    IF \E i \in DOMAIN registrations :
          /\ registrations[i].id = payment_data.registration_id
          /\ registrations[i].payment_status = "completed"
    THEN [payment_status |-> "completed"]
    ELSE [payment_status |-> "completed", payment_id |-> payment_data.razorpay_payment_id]

\* {"$set": {"payment_status": "completed", "payment_id": razorpay_payment_id}}
PaymentFields(payment_data) ==
    [payment_status |-> "completed", payment_id |-> payment_data.razorpay_payment_id]

\* A plausible slip: without the `except HTTPException: raise` clause the
\* mismatch is caught by `except Exception` and reported as the generic failure.
verify_payment_without_reraise(payment_data) ==
    /\ IF ~razorpay_client
       THEN /\ last_response' = HTTPException("verify-payment", 500, "Payment gateway not configured")
            /\ UNCHANGED inflight
       ELSE IF SignatureMismatch(payment_data)
       THEN /\ last_response' = HTTPException("verify-payment", 500, "Payment verification failed")
            /\ UNCHANGED inflight
       ELSE /\ Cardinality(inflight) < MaxInflight
            /\ inflight' = inflight \cup {[op |-> "verify_payment", payment_data |-> payment_data]}
            /\ UNCHANGED last_response
    /\ UNCHANGED <<razorpay_key_id, razorpay_key_secret, registrations, orders>>

\* Up to the await: the configuration check and the signature check.
verify_payment(payment_data) ==
    /\ IF ~razorpay_client
       THEN /\ last_response' = HTTPException("verify-payment", 500, "Payment gateway not configured")
            /\ UNCHANGED inflight
       ELSE IF SignatureMismatch(payment_data)
       THEN /\ last_response' = HTTPException("verify-payment", 400, "Invalid payment signature")
            /\ UNCHANGED inflight
       ELSE /\ Cardinality(inflight) < MaxInflight
            /\ inflight' = inflight \cup {[op |-> "verify_payment", payment_data |-> payment_data]}
            /\ UNCHANGED last_response
    /\ UNCHANGED <<razorpay_key_id, razorpay_key_secret, registrations, orders>>

\* From the await on, the store reachable: update_one is applied and the
\* handler returns success.
verify_payment_update(call) ==
    /\ call \in inflight
    /\ call.op = "verify_payment"
    /\ inflight' = inflight \ {call}
    /\ registrations' = UpdateOne(registrations, call.payment_data.registration_id,
                                  PaymentFields(call.payment_data))
    /\ last_response' = Ok("verify-payment",
                           [status |-> "success",
                            message |-> "Payment verified successfully"])
    /\ UNCHANGED <<razorpay_key_id, razorpay_key_secret, orders>>

\* From the await on, the store unreachable: update_one raises and the
\* handler reports the generic failure.
verify_payment_update_fails(call) ==
    /\ call \in inflight
    /\ call.op = "verify_payment"
    /\ inflight' = inflight \ {call}
    /\ last_response' = HTTPException("verify-payment", 500, "Payment verification failed")
    /\ UNCHANGED <<razorpay_key_id, razorpay_key_secret, registrations, orders>>

-----------------------------------------------------------------------------
(* The process dies: every suspended handler is lost, the store and the    *)
(* gateway keep what they hold, and the environment is read again.         *)

\* A plausible slip of design: suspended order updates are kept in a durable
\* queue and one of them is replayed when the process comes back.
CrashReplayingUpdate ==
    /\ inflight # {}
    /\ inflight' = {}
    /\ LET pending == {call \in inflight : call.op = "create_order"}
       IN IF pending = {}
          THEN UNCHANGED registrations
          ELSE LET call == CHOOSE call \in pending : TRUE
               IN registrations' = UpdateOne(registrations, call.order_data.registration_id,
                                             OrderIdFields(call.order))
    /\ UNCHANGED <<razorpay_key_id, razorpay_key_secret, orders, last_response>>

Crash ==
    /\ inflight # {}
    /\ inflight' = {}
    /\ UNCHANGED <<razorpay_key_id, razorpay_key_secret, registrations, orders,
                   last_response>>

-----------------------------------------------------------------------------

\* One step of the service, its callers or its environment, with the
\* OrderCreate bodies drawn from order_inputs.
Step(order_inputs) ==
    \/ \E input_data \in RegistrationInputs : create_registration(input_data, MaxRegistrations)
    \/ create_registration_fails
    \/ \E order_data \in order_inputs : create_order(order_data)
    \/ \E call \in inflight : create_order_update(call)
    \/ \E call \in inflight : create_order_update_fails(call)
    \/ \E payment_data \in PaymentVerificationInputs : verify_payment(payment_data)
    \/ \E call \in inflight : verify_payment_update(call)
    \/ \E call \in inflight : verify_payment_update_fails(call)
    \/ Crash

Next == Step(OrderCreateInputs)

Spec == Init /\ [][Next]_vars

\* Callers put any amount in an OrderCreate body.
NextAnyAmount == Step(AnyAmountOrderCreateInputs)

SpecAnyAmount == Init /\ [][NextAnyAmount]_vars

\* Only registrations are created, with every category and accommodation selection.
NextPricing ==
    \/ \E input_data \in AllRegistrationInputs :
          create_registration(input_data, MaxPricingRegistrations)
    \/ create_registration_fails

SpecPricing == Init /\ [][NextPricing]_vars

\* Registrations are created, with every category and accommodation
\* selection, and fetched by id.
NextRetrieval ==
    \/ \E input_data \in AllRegistrationInputs :
          create_registration(input_data, MaxPricingRegistrations)
    \/ create_registration_fails
    \/ \E registration_id \in RegistrationIds : get_registration(registration_id)
    \/ get_registration_fails

SpecRetrieval == Init /\ [][NextRetrieval]_vars

-----------------------------------------------------------------------------
(* Vocabulary of the properties. *)

\* The HMAC-SHA256, under the configured secret, of the call's own orderId|paymentId.
ExpectedSignature(payment_data) ==
    HmacSha256Hex(razorpay_key_secret,
                  payment_data.razorpay_order_id \o "|" \o payment_data.razorpay_payment_id)

\* The verify calls whose signature is, and is not, the expected one when the
\* configured secret is key.
ValidVerifications ==
    [key \in KeySecrets |->
        {payment_data \in PaymentVerificationInputs :
            payment_data.razorpay_signature =
                HmacSha256Hex(key, payment_data.razorpay_order_id \o "|"
                                       \o payment_data.razorpay_payment_id)}]
InvalidVerifications ==
    [key \in KeySecrets |-> PaymentVerificationInputs \ ValidVerifications[key]]

\* The gateway is configured: both credentials are present.
GatewayConfigured == razorpay_key_id # "" /\ razorpay_key_secret # ""

VerifyCalls == {call \in inflight : call.op = "verify_payment"}
CreateOrderCalls == {call \in inflight : call.op = "create_order"}

Completed(doc) == doc.payment_status = "completed"

SignatureMismatchResponse ==
    [endpoint |-> "verify-payment", status_code |-> 400, detail |-> "Invalid payment signature"]

NotConfiguredResponse(endpoint) ==
    [endpoint |-> endpoint, status_code |-> 500, detail |-> "Payment gateway not configured"]

VerifySuccessResponse ==
    /\ last_response.endpoint = "verify-payment"
    /\ last_response.status_code = 200
    /\ last_response.body.status = "success"

\* The documents the store held before the step are all still there, unchanged.
StoreUnchanged == registrations' = registrations

-----------------------------------------------------------------------------
\* C1: a registration gets payment_status "completed" only in the step that
\* applies the update of a verify call received earlier which named that
\* registration id and presented the HMAC-SHA256 of its own orderId|paymentId
\* under the configured secret; no other step produces the completed status.
C1_CompletedOnlyAfterValidSignature ==
    [][\A i \in DOMAIN registrations' :
          (/\ Completed(registrations'[i])
           /\ (i \in DOMAIN registrations => ~Completed(registrations[i])))
          => \E call \in VerifyCalls :
                /\ call.payment_data.registration_id = registrations'[i].id
                /\ call.payment_data.razorpay_signature = ExpectedSignature(call.payment_data)
                /\ verify_payment_update(call)]_vars

\* A registration has been completed by a verify call that returned success.
C1_Witness ==
    /\ VerifySuccessResponse
    /\ \E i \in DOMAIN registrations : Completed(registrations[i])

\* C2: once a registration's payment_status is completed, it is completed
\* after every later step.
C2_CompletedNeverReverts ==
    [][\A i \in DOMAIN registrations :
          Completed(registrations[i])
          => /\ i \in DOMAIN registrations'
             /\ registrations'[i].id = registrations[i].id
             /\ Completed(registrations'[i])]_vars

\* A completed registration for which a createOrder call has then succeeded.
C2_Witness ==
    /\ last_response.endpoint = "create-order"
    /\ last_response.status_code = 200
    /\ \E i \in DOMAIN registrations :
          /\ Completed(registrations[i])
          /\ registrations[i].order_id = last_response.body.order_id

\* C3: with the gateway configured, a verify call whose signature is the
\* HMAC-SHA256 of its orderId|paymentId is not rejected by the signature
\* check, and when the store is reachable at its update (update_one is
\* applied) the call returns success and leaves the named registration
\* completed with the supplied payment id.
C3_ValidSignatureSucceeds ==
    [][GatewayConfigured
       => /\ \A payment_data \in ValidVerifications[razorpay_key_secret] :
                verify_payment(payment_data)
                => /\ [op |-> "verify_payment", payment_data |-> payment_data] \in inflight'
                   /\ last_response' = last_response
          /\ \A call \in VerifyCalls :
                (/\ verify_payment_update(call)
                 /\ call.payment_data.razorpay_signature = ExpectedSignature(call.payment_data))
                => /\ VerifySuccessResponse'
                   /\ \A i \in DOMAIN registrations' :
                         registrations'[i].id = call.payment_data.registration_id
                         => /\ registrations'[i].payment_status = "completed"
                            /\ registrations'[i].payment_id =
                                   call.payment_data.razorpay_payment_id]_vars

\* A verify call has returned success and the registration carries its payment id.
C3_Witness ==
    /\ VerifySuccessResponse
    /\ \E i \in DOMAIN registrations :
          /\ registrations[i].payment_status = "completed"
          /\ registrations[i].payment_id = "pay_1"

\* C4: a verify call whose signature differs from the expected digest changes
\* nothing in the store and starts no update, however often it is repeated;
\* with the gateway configured its response is the 400 signature mismatch.
\* (Every step either has that effect or is no step of such a call.)
C4_BadSignatureRejected ==
    [][\/ /\ StoreUnchanged
          /\ inflight' = inflight
          /\ orders' = orders
          /\ GatewayConfigured => last_response' = SignatureMismatchResponse
       \/ \A payment_data \in InvalidVerifications[razorpay_key_secret] :
             ~verify_payment(payment_data)]_vars

\* A bad signature has been rejected while a registration was completed.
C4_Witness ==
    /\ last_response = SignatureMismatchResponse
    /\ \E i \in DOMAIN registrations :
          /\ Completed(registrations[i])
          /\ registrations[i].payment_id = "pay_1|pay_1"

\* C5: with a credential absent, every createOrder call and every verify call
\* (whatever its signature) fails with the not-configured error, creates no
\* order at the gateway, starts no update and leaves every registration as it was.
C5_NotConfiguredFailsUnmodified ==
    [][(razorpay_key_id = "" \/ razorpay_key_secret = "")
       => /\ \A order_data \in OrderCreateInputs :
                create_order(order_data)
                => /\ last_response' = NotConfiguredResponse("create-order")
                   /\ StoreUnchanged /\ orders' = orders /\ inflight' = inflight
          /\ \A payment_data \in PaymentVerificationInputs :
                verify_payment(payment_data)
                => /\ last_response' = NotConfiguredResponse("verify-payment")
                   /\ StoreUnchanged /\ orders' = orders /\ inflight' = inflight
          /\ inflight = {} /\ orders = <<>>]_vars

\* A verify call was refused for want of configuration while a registration exists.
C5_Witness ==
    /\ razorpay_key_id = "" /\ razorpay_key_secret = "s3cr3t"
    /\ last_response = NotConfiguredResponse("verify-payment")
    /\ registrations # <<>>

\* C6: every order the gateway holds for a registration carries that
\* registration's stored amount.
C6_OrderAmountIsStoredAmount ==
    \A k \in DOMAIN orders : \A i \in DOMAIN registrations :
        registrations[i].id = orders[k].notes.registration_id
        => orders[k].amount = registrations[i].amount

\* The fields fixed at creation.
FixedFields ==
    {"id", "full_name", "email", "category", "accommodation_required", "room_type",
     "amount", "created_at"}

\* C7: no step removes a record or changes its id, creation timestamp,
\* descriptive fields or amount, or adds or drops a field; the update of a
\* createOrder call leaves payment_status and payment_id alone, and the update
\* of a verify call leaves order_id alone.
C7_FixedAtCreation ==
    [][/\ \A i \in DOMAIN registrations :
             /\ i \in DOMAIN registrations'
             /\ DOMAIN registrations'[i] = DOMAIN registrations[i]
             /\ \A field \in FixedFields : registrations'[i][field] = registrations[i][field]
       /\ \A call \in CreateOrderCalls :
             create_order_update(call)
             => \A i \in DOMAIN registrations :
                   /\ registrations'[i].payment_status = registrations[i].payment_status
                   /\ registrations'[i].payment_id = registrations[i].payment_id
       /\ \A call \in VerifyCalls :
             verify_payment_update(call)
             => \A i \in DOMAIN registrations :
                   registrations'[i].order_id = registrations[i].order_id]_vars

\* A registration of amount 1200000 that has gone through both updates,
\* beside a second registration that no call has named.
C7_Witness ==
    /\ Len(registrations) = 2
    /\ registrations[1].order_id # None
    /\ Completed(registrations[1])
    /\ registrations[1].amount = 1200000
    /\ registrations[2].order_id = None
    /\ registrations[2].payment_status = "pending"

\* C8: after every step a record with a payment id is completed, and a
\* record's payment_id is written only by the update of a verify call that
\* names the record, returns success in that step and supplied that payment id
\* (a new record starts without one).
C8_PaymentIdOnlyWithCompletion ==
    [][/\ \A i \in DOMAIN registrations' :
             registrations'[i].payment_id # None => Completed(registrations'[i])
       /\ \A i \in DOMAIN registrations' \ DOMAIN registrations :
             registrations'[i].payment_id = None
       /\ \A i \in DOMAIN registrations' \cap DOMAIN registrations :
             registrations'[i].payment_id # registrations[i].payment_id
             => \E call \in VerifyCalls :
                   /\ call.payment_data.registration_id = registrations'[i].id
                   /\ call.payment_data.razorpay_payment_id = registrations'[i].payment_id
                   /\ verify_payment_update(call)
                   /\ VerifySuccessResponse']_vars

\* A record carries a payment id, and no call is suspended.
C8_Witness ==
    /\ inflight = {}
    /\ \E i \in DOMAIN registrations :
          /\ registrations[i].payment_id \in {"pay_1", "pay_1|pay_1"}
          /\ registrations[i].payment_status = "completed"

\* C9: a new record has no order id; a record's order_id changes only in the
\* step in which a createOrder call naming it returns success; and that step
\* (the gateway has created the order and update_one is applied) writes the id
\* of the order the gateway created for the call, whatever order id the record
\* had, and returns the same id.
C9_OrderIdFromSuccessfulCreateOrder ==
    [][/\ \A i \in DOMAIN registrations' \ DOMAIN registrations :
             registrations'[i].order_id = None
       /\ \A i \in DOMAIN registrations' \cap DOMAIN registrations :
             registrations'[i].order_id # registrations[i].order_id
             => \E call \in CreateOrderCalls :
                   /\ call.order_data.registration_id = registrations'[i].id
                   /\ create_order_update(call)
                   /\ last_response'.endpoint = "create-order"
                   /\ last_response'.status_code = 200
       /\ \A call \in CreateOrderCalls :
             create_order_update(call)
             => /\ \E k \in DOMAIN orders :
                      /\ orders[k] = call.order
                      /\ orders[k].notes.registration_id = call.order_data.registration_id
                /\ last_response'.endpoint = "create-order"
                /\ last_response'.status_code = 200
                /\ last_response'.body.order_id = call.order.id
                /\ \A i \in DOMAIN registrations :
                      registrations[i].id = call.order_data.registration_id
                      => registrations'[i].order_id = call.order.id]_vars

\* Two orders were issued for one registration, both calls are over, and the
\* record carries the id of the second order, which the last call returned.
C9_Witness ==
    /\ Len(orders) = 2
    /\ CreateOrderCalls = {}
    /\ last_response.endpoint = "create-order"
    /\ last_response.status_code = 200
    /\ \E i \in DOMAIN registrations :
          /\ \A k \in DOMAIN orders : orders[k].notes.registration_id = registrations[i].id
          /\ registrations[i].order_id = last_response.body.order_id
          /\ registrations[i].order_id = "order_2"

\* base(category), rate(roomType) and the room cost, as the pricing rule states them.
Base(category) == IF category \in DOMAIN PRICING THEN PRICING[category] ELSE 0
Rate(room_type) == IF room_type \in DOMAIN ROOM_PRICING THEN ROOM_PRICING[room_type] ELSE 0
Room(record) ==
    IF record.accommodation_required /\ record.room_type # None
    THEN Rate(record.room_type) * 2
    ELSE 0

\* C10: every record created, for every category and accommodation selection,
\* has amount (base(category) + room) * 100, with base 0 for an unknown
\* category and rate 0 for an unknown room type; the record a creation
\* returns carries the same amount.
C10_AmountFormula ==
    /\ \A i \in DOMAIN registrations :
          registrations[i].amount =
              (Base(registrations[i].category) + Room(registrations[i])) * 100
    /\ (last_response.endpoint = "registration" /\ last_response.status_code = 200)
       => last_response.body.amount =
             (Base(last_response.body.category) + Room(last_response.body)) * 100

\* An unknown category with a suite: two nights of 12000, in paise.
C10_Witness ==
    \E i \in DOMAIN registrations :
        /\ registrations[i].category = "vip"
        /\ registrations[i].accommodation_required
        /\ registrations[i].room_type = "suite"
        /\ registrations[i].amount = 2400000

\* C11: a creation that adds a record returns it with the amount computed
\* from its category and accommodation selection, payment_status pending and
\* no order id or payment id, as it is stored; and a fetch by the returned id,
\* answered by the store right after the creation returned, returns the
\* identical record.
C11_CreateThenGetRoundTrip ==
    [][/\ Len(registrations') = Len(registrations) + 1
          => /\ last_response'.endpoint = "registration"
             /\ last_response'.status_code = 200
             /\ Doc(last_response'.body) = registrations'[Len(registrations')]
             /\ last_response'.body.amount =
                    (Base(last_response'.body.category) + Room(last_response'.body)) * 100
             /\ last_response'.body.payment_status = "pending"
             /\ last_response'.body.order_id = None
             /\ last_response'.body.payment_id = None
       /\ \A registration_id \in RegistrationIds :
             (/\ last_response.endpoint = "registration"
              /\ last_response.status_code = 200
              /\ last_response.body.id = registration_id
              /\ get_registration(registration_id))
             => /\ last_response'.endpoint = "get-registration"
                /\ last_response'.status_code = 200
                /\ last_response'.body = last_response.body]_vars

\* The delegate_early_bird registration without accommodation has been
\* fetched by its id: amount 1200000, pending, as stored.
C11_Witness ==
    /\ last_response.endpoint = "get-registration"
    /\ last_response.status_code = 200
    /\ last_response.body.category = "delegate_early_bird"
    /\ ~last_response.body.accommodation_required
    /\ last_response.body.amount = 1200000
    /\ last_response.body.payment_status = "pending"
    /\ last_response.body.id = NewId(1)
    /\ last_response.body.created_at = 1

\* The records already completed with a payment id other than the one
\* payment_data carries, which payment_data names.
CompletedWithOtherPayment(payment_data) ==
    {i \in DOMAIN registrations :
        /\ registrations[i].id = payment_data.registration_id
        /\ Completed(registrations[i])
        /\ registrations[i].payment_id # payment_data.razorpay_payment_id}

\* C12: for a registration already completed under another payment id, a
\* verify call with a valid signature is still let through the signature
\* check, and its update returns success, leaves the record completed and
\* replaces the payment id by the one the call carries.
C12_SecondVerifyOverwrites ==
    [][/\ GatewayConfigured
          => \A payment_data \in ValidVerifications[razorpay_key_secret] :
                (CompletedWithOtherPayment(payment_data) # {} /\ verify_payment(payment_data))
                => [op |-> "verify_payment", payment_data |-> payment_data] \in inflight'
       /\ \A call \in VerifyCalls :
             (CompletedWithOtherPayment(call.payment_data) # {} /\ verify_payment_update(call))
             => /\ VerifySuccessResponse'
                /\ \A i \in CompletedWithOtherPayment(call.payment_data) :
                      /\ Completed(registrations'[i])
                      /\ registrations'[i].payment_id = call.payment_data.razorpay_payment_id]_vars

\* A registration is completed under payment id pay_1 and a verify call
\* naming it with another payment id has passed the signature check.
C12_Witness ==
    \E i \in DOMAIN registrations : \E call \in VerifyCalls :
        /\ Completed(registrations[i])
        /\ registrations[i].payment_id = "pay_1"
        /\ call.payment_data.registration_id = registrations[i].id
        /\ call.payment_data.razorpay_payment_id = "pay_1|pay_1"

VerificationFailedResponse ==
    [endpoint |-> "verify-payment", status_code |-> 500, detail |-> "Payment verification failed"]

\* C13: with the gateway configured, a verify call whose signature does not
\* match is answered with the 400 signature mismatch, never with the generic
\* failure; and a verify call that passed the signature check and whose
\* update fails at the store is answered with the generic 500 verification
\* failure, which is neither the mismatch nor success, and every record keeps
\* its payment_status and payment_id.
C13_VerifyOutcomesDistinguishable ==
    [][/\ GatewayConfigured
          => \/ /\ last_response' = SignatureMismatchResponse
                /\ last_response' # VerificationFailedResponse
             \/ \A payment_data \in InvalidVerifications[razorpay_key_secret] :
                   ~verify_payment(payment_data)
       /\ \A call \in VerifyCalls :
             verify_payment_update_fails(call)
             => /\ call.payment_data.razorpay_signature = ExpectedSignature(call.payment_data)
                /\ last_response' = VerificationFailedResponse
                /\ last_response' # SignatureMismatchResponse
                /\ last_response'.status_code # 200
                /\ \A i \in DOMAIN registrations :
                      /\ registrations'[i].payment_status = registrations[i].payment_status
                      /\ registrations'[i].payment_id = registrations[i].payment_id]_vars

\* A verify call with a valid signature has met a store failure: the generic
\* failure was returned and the registration is still pending.
C13_Witness ==
    /\ last_response = VerificationFailedResponse
    /\ inflight = {}
    /\ registrations # <<>>
    /\ \A i \in DOMAIN registrations :
          registrations[i].payment_status = "pending" /\ registrations[i].payment_id = None

CreateOrderFailedResponse ==
    [endpoint |-> "create-order", status_code |-> 500, detail |-> "Failed to create payment order"]

\* C14: with the gateway configured, a createOrder call whose gateway call
\* fails is answered with the generic 500, creates no order (the failed
\* attempt is not repeated), starts no store update and leaves every record,
\* its order_id included, as it was; and the gateway gets a new order only in
\* a step of a createOrder call, one order per call.
C14_GatewayFailureNoUpdateNoRetry ==
    [][/\ GatewayConfigured
          => \A order_data \in OrderCreateInputs :
                create_order_attempt(order_data, TRUE)
                => /\ last_response' = CreateOrderFailedResponse
                   /\ orders' = orders
                   /\ inflight' = inflight
                   /\ StoreUnchanged
       /\ orders' # orders
          => /\ Len(orders') = Len(orders) + 1
             /\ \E order_data \in OrderCreateInputs : create_order_attempt(order_data, FALSE)]_vars

\* The gateway holds one order, whose id the registration carries; a later
\* or earlier createOrder call failed at the gateway, and nothing is suspended.
C14_Witness ==
    /\ last_response = CreateOrderFailedResponse
    /\ Len(orders) = 1
    /\ inflight = {}
    /\ \E i \in DOMAIN registrations : registrations[i].order_id = "order_1"

\* The stored records that carry the descriptive fields of input_data.
EarlierSubmissions(input_data) ==
    {i \in DOMAIN registrations :
        /\ registrations[i].full_name = input_data.full_name
        /\ registrations[i].email = input_data.email
        /\ registrations[i].category = input_data.category}

\* C15: the collection grows only by a creation the store accepts, which,
\* its input equal to an earlier one or not, appends exactly one record, whose
\* id no existing record has and which the call returns, and leaves every
\* existing record as it was; and
\* where a creation fails (the store could not be reached) although it repeats
\* an earlier submission, the same call could have been accepted: nothing but
\* the store's failure, and the room of the collection here, refuses it.
C15_CreateNeverRejectsDuplicates ==
    [][/\ Len(registrations') # Len(registrations)
          => /\ Len(registrations') = Len(registrations) + 1
             /\ \E input_data \in RegistrationInputs :
                   create_registration(input_data, MaxRegistrations)
             /\ \A i \in DOMAIN registrations :
                   /\ registrations'[i] = registrations[i]
                   /\ registrations'[i].id # registrations'[Len(registrations')].id
             /\ last_response'.endpoint = "registration"
             /\ last_response'.status_code = 200
             /\ last_response'.body.id = registrations'[Len(registrations')].id
       /\ \A input_data \in RegistrationInputs :
             (/\ create_registration_fails
              /\ EarlierSubmissions(input_data) # {}
              /\ Len(registrations) < MaxRegistrations)
             => ENABLED create_registration(input_data, MaxRegistrations)]_vars

\* The same submission has been stored twice, under two ids, and the second
\* creation has just returned its record.
C15_Witness ==
    /\ Len(registrations) = 2
    /\ registrations[1].email = registrations[2].email
    /\ registrations[1].full_name = registrations[2].full_name
    /\ registrations[1].category = registrations[2].category
    /\ registrations[1].id # registrations[2].id
    /\ last_response.endpoint = "registration"
    /\ last_response.status_code = 200
    /\ last_response.body.id = registrations[2].id

\* The orders the gateway holds whose createOrder call is over: no suspended
\* handler is about to write them.
SettledOrders ==
    {k \in DOMAIN orders : \A call \in CreateOrderCalls : call.order # orders[k]}

\* C16: a createOrder call suspended between its two steps has its order at
\* the gateway already; when the process dies or its update fails at the
\* store, every record keeps its order_id, the gateway keeps the order, and no
\* success is returned (the failed update returns the generic 500, the dead
\* process returns nothing); and nothing repairs the store afterwards: the
\* gateway never loses an order, and the id of an order whose call is over is
\* never written into a record that does not carry it.
C16_CrashBetweenGatewayAndStore ==
    [][/\ \A call \in CreateOrderCalls :
             /\ \E k \in DOMAIN orders : orders[k] = call.order
             /\ create_order_update_fails(call)
                => /\ StoreUnchanged
                   /\ orders' = orders
                   /\ call \notin inflight'
                   /\ last_response' = CreateOrderFailedResponse
       /\ Crash
          => /\ StoreUnchanged
             /\ orders' = orders
             /\ inflight' = {}
             /\ last_response' = last_response
       /\ \A k \in DOMAIN orders : k \in DOMAIN orders' /\ orders'[k] = orders[k]
       /\ \A k \in SettledOrders : \A i \in DOMAIN registrations :
             registrations[i].order_id # orders[k].id
             => registrations'[i].order_id # orders[k].id]_vars

\* The gateway holds an order for the first registration, no handler is
\* suspended, and the record has no order id.
C16_Witness ==
    /\ Len(orders) = 1
    /\ inflight = {}
    /\ registrations # <<>>
    /\ orders[1].notes.registration_id = registrations[1].id
    /\ registrations[1].order_id = None

\* The position, in the order of creation at the gateway, of the order with that id.
CreatedAt(order_id) == CHOOSE k \in DOMAIN orders : orders[k].id = order_id

\* C17: when the update of a createOrder call is applied to a record that
\* carries the id of another order, the record takes the id of the call's
\* order, whether the gateway created that order before or after the one the
\* record carried: the update applied last decides, not the gateway's order
\* of creation. An update still suspended stays suspended.
C17_LastWriteWins ==
    [][\A call \in CreateOrderCalls : \A i \in DOMAIN registrations :
          (/\ registrations[i].id = call.order_data.registration_id
           /\ registrations[i].order_id # None
           /\ registrations[i].order_id # call.order.id
           /\ create_order_update(call))
          => /\ registrations'[i].order_id = call.order.id
             /\ CreatedAt(registrations[i].order_id) # CreatedAt(call.order.id)
             /\ inflight' = inflight \ {call}]_vars

\* Two createOrder calls for one registration have interleaved: the order the
\* gateway created second has been written, and the update carrying the
\* order created first is still to be applied.
C17_Witness ==
    \E i \in DOMAIN registrations : \E call \in CreateOrderCalls :
        /\ call.order_data.registration_id = registrations[i].id
        /\ call.order.id = "order_1"
        /\ registrations[i].order_id = "order_2"
        /\ CreatedAt("order_1") < CreatedAt("order_2")

\* The ids of the records in the store.
StoredIds == {registrations[i].id : i \in DOMAIN registrations}

\* C18: the update of a createOrder call (its gateway call has succeeded) and
\* the update of a verify call (its signature was valid), applied by the store
\* for a registration id that no record has, both return success, add no
\* record and leave every record as it was.
C18_UnknownIdSilentNoOp ==
    [][/\ \A call \in CreateOrderCalls :
             (call.order_data.registration_id \notin StoredIds /\ create_order_update(call))
             => /\ StoreUnchanged
                /\ last_response'.endpoint = "create-order"
                /\ last_response'.status_code = 200
                /\ last_response'.body.order_id = call.order.id
       /\ \A call \in VerifyCalls :
             (call.payment_data.registration_id \notin StoredIds /\ verify_payment_update(call))
             => /\ StoreUnchanged
                /\ VerifySuccessResponse'
                /\ call.payment_data.razorpay_signature = ExpectedSignature(call.payment_data)]_vars

\* A verify call has returned success and the gateway holds an order, yet the
\* records in the store are all pending and without order id: the calls
\* named ids the store did not hold.
C18_Witness ==
    /\ VerifySuccessResponse
    /\ inflight = {}
    /\ orders # <<>>
    /\ orders[1].notes.registration_id = "test-registration-id"
    /\ registrations # <<>>
    /\ \A i \in DOMAIN registrations :
          /\ registrations[i].payment_status = "pending"
          /\ registrations[i].payment_id = None
          /\ registrations[i].order_id = None

\* C19: with the gateway configured, whatever the store and the gateway hold
\* and whichever registration id the call names, a verify call is let through
\* the signature check exactly when its signature is the HMAC-SHA256 of its
\* orderId|paymentId under the configured secret: a step that answers with the
\* signature mismatch is the step of no call with a valid signature, and every
\* verify call that becomes suspended at the update has a valid signature.
C19_DecisionIgnoresStore ==
    [][GatewayConfigured
       => /\ (last_response' = SignatureMismatchResponse /\ inflight' = inflight)
             => \A payment_data \in ValidVerifications[razorpay_key_secret] :
                   ~verify_payment(payment_data)
          /\ \A call \in inflight' \ inflight :
                call.op = "verify_payment"
                => /\ call.payment_data \in ValidVerifications[razorpay_key_secret]
                   /\ verify_payment(call.payment_data)]_vars

\* A registration is completed although the gateway never issued an order:
\* its order_id is null.
C19_Witness ==
    /\ orders = <<>>
    /\ \E i \in DOMAIN registrations :
          /\ Completed(registrations[i])
          /\ registrations[i].order_id = None
          /\ registrations[i].payment_id = "pay_1"

\* C20: the update of a createOrder call changes, in the record it names,
\* order_id and nothing else, and the update of a verify call changes
\* payment_status and payment_id and nothing else; applying one leaves the
\* other call suspended. So when a createOrder call and a verify call for one
\* registration are suspended together, the record ends, after both updates
\* in either order, with the call's order id and with the completed status
\* and the payment id of the verify call.
C20_DisjointFieldsCommute ==
    [][/\ \A call \in CreateOrderCalls :
             create_order_update(call)
             => /\ \A i \in DOMAIN registrations :
                      registrations[i].id = call.order_data.registration_id
                      => registrations'[i] =
                            [registrations[i] EXCEPT !.order_id = call.order.id]
                /\ VerifyCalls \subseteq inflight'
       /\ \A call \in VerifyCalls :
             verify_payment_update(call)
             => /\ \A i \in DOMAIN registrations :
                      registrations[i].id = call.payment_data.registration_id
                      => registrations'[i] =
                            [registrations[i] EXCEPT
                                !.payment_status = "completed",
                                !.payment_id = call.payment_data.razorpay_payment_id]
                /\ CreateOrderCalls \subseteq inflight'
       /\ \A order_call \in CreateOrderCalls : \A verify_call \in VerifyCalls :
             order_call.order_data.registration_id = verify_call.payment_data.registration_id
             => LET id == order_call.order_data.registration_id
                    order_first ==
                        UpdateOne(UpdateOne(registrations, id, OrderIdFields(order_call.order)),
                                  id, PaymentFields(verify_call.payment_data))
                    verify_first ==
                        UpdateOne(UpdateOne(registrations, id, PaymentFields(verify_call.payment_data)),
                                  id, OrderIdFields(order_call.order))
                IN /\ order_first = verify_first
                   /\ \A i \in DOMAIN registrations :
                         registrations[i].id = id
                         => /\ order_first[i].order_id = order_call.order.id
                            /\ order_first[i].payment_status = "completed"
                            /\ order_first[i].payment_id =
                                   verify_call.payment_data.razorpay_payment_id]_vars

\* A createOrder call and a verify call naming the same stored registration
\* are suspended at their updates together.
C20_Witness ==
    \E i \in DOMAIN registrations :
        \E order_call \in CreateOrderCalls : \E verify_call \in VerifyCalls :
            /\ order_call.order_data.registration_id = registrations[i].id
            /\ verify_call.payment_data.registration_id = registrations[i].id
            /\ registrations[i].order_id = None
            /\ registrations[i].payment_status = "pending"

\* C21: a signature is bound to one (orderId, paymentId) pair: two verify
\* calls that have both passed the signature check with the same signature
\* carry the same order id and the same payment id.
C21_SignatureBoundToOnePair ==
    \A first \in VerifyCalls : \A second \in VerifyCalls :
        first.payment_data.razorpay_signature = second.payment_data.razorpay_signature
        => /\ first.payment_data.razorpay_order_id = second.payment_data.razorpay_order_id
           /\ first.payment_data.razorpay_payment_id = second.payment_data.razorpay_payment_id

====
